---- MODULE Spec2Model ----
(***************************************************************************)
(* A model of V8's WebAssembly revectorizer (src/compiler/revectorizer.cc): *)
(* the seed collector and driver (Revectorizer) and the SLP tree builder   *)
(* (SLPTree).  The IR graph is data chosen in Init; the recursion of       *)
(* BuildTreeRec / NewPackNodeAndRecurs is run with an explicit frame stack, *)
(* one step per BuildTreeRec entry and one per return into a caller.       *)
(***************************************************************************)
EXTENDS Integers, Sequences, FiniteSets, TLC

VARIABLES graph, ptr_order, support_simd256_, group_of_stores_, stack_, on_stack_,
          node_to_packnode_, packs, root_, pc, arg, ret, frames, units,
          success, calls, trace, attempts, built_from, last_result

vars == <<graph, ptr_order, support_simd256_, group_of_stores_, stack_, on_stack_,
          node_to_packnode_, packs, root_, pc, arg, ret, frames, units,
          success, calls, trace, attempts, built_from, last_result>>

(***************************************************************************)
(* Program constants.                                                      *)
(***************************************************************************)
kSimd128Size == 16
RecursionMaxDepth == 8

(***************************************************************************)
(* Bounds of the model.                                                    *)
(***************************************************************************)
\* number of TryRevectorize calls made on one Revectorizer
MaxCalls == 2
\* longest F32x4Add chain below the root stores in the Chain graphs
MaxChain == 8
\* most SIMD stores in a store-layout graph
MaxStores == 4

\* The null PackNode pointer.
NoPack == 0

(***************************************************************************)
(* IR query adapter.  A node is a record                                   *)
(*   opcode : the IrOpcode                                                 *)
(*   op     : the identity of the Operator object (node->op())             *)
(*   param  : OpParameter<int>(op) (constant value, ExtractF128 lane)      *)
(*   rep    : the MachineRepresentation of a load / phi / loop-exit op     *)
(*   xform  : the LoadTransformation of a LoadTransform op                 *)
(*   in     : the inputs before FirstControlIndex (value, then effect)     *)
(*   nval   : ValueInputCount                                              *)
(*   block  : the basic block the scheduler assigned                       *)
(*   esp    : the early schedule position (a dominator)                    *)
(***************************************************************************)
Nd(opc, o, par, r, x, ins, nv, blk) ==
  [opcode |-> opc, op |-> o, param |-> par, rep |-> r, xform |-> x,
   in |-> ins, nval |-> nv, block |-> blk, esp |-> blk]

NodeIds == 1..Len(graph.nodes)
Opcode(node) == graph.nodes[node].opcode
Op(node) == graph.nodes[node].op
OpParameter(node) == graph.nodes[node].param
\* Node::InputAt with the 0-based index of the code
InputAt(node, i) == graph.nodes[node].in[i + 1]
FirstControlIndex(node) == Len(graph.nodes[node].in)
ValueInputCount(node) == graph.nodes[node].nval
GetValueInput(node, i) == InputAt(node, i)
SameBasicBlock(node0, node1) == graph.nodes[node0].block = graph.nodes[node1].block
GetEarlySchedulePosition(node) == graph.nodes[node].esp
GetSimdStoreNodes == graph.stores

ConstantOpcodes == {"Int32Constant", "Int64Constant", "Float64Constant"}
IsConstant(node) == Opcode(node) \in ConstantOpcodes
PhiOpcodes == {"Phi", "EffectPhi"}
IsPhi(node) == Opcode(node) \in PhiOpcodes
Simd128Opcodes == {"F32x4Add", "F32x4Mul", "F32x4Sub", "LoadTransform"}
IsSimd128Operation(node) == Opcode(node) \in Simd128Opcodes

(***************************************************************************)
(* Memory address analysis.                                                *)
(***************************************************************************)
\* C++ operator% on int64_t: the remainder takes the sign of the dividend.
CppMod(a, b) == IF a >= 0 THEN a % b ELSE -((-a) % b)

GetConstantValue(node) ==
  IF Opcode(node) = "Int64Constant" THEN OpParameter(node) ELSE -1

GetMemoryOffsetValue(node) ==
  LET offset == InputAt(node, 0) IN
  IF Opcode(offset) \in {"LoadFromObject", "Load"} THEN 0
  ELSE IF Opcode(offset) = "Int64Add"
       THEN IF IsConstant(InputAt(offset, 0))
            THEN GetConstantValue(InputAt(offset, 0))
            ELSE IF IsConstant(InputAt(offset, 1))
                 THEN GetConstantValue(InputAt(offset, 1))
                 ELSE -1
       ELSE -1

GetNodeAddress(node) ==
  LET address == InputAt(node, 1) IN
  IF Opcode(address) = "ChangeUint32ToUint64" THEN InputAt(address, 0)
  ELSE address

\* IsContinuousAccess taking any gap of at least 16 bytes
IsContinuousAccess_AnyGap(node_group) ==
  \A i \in 2..Len(node_group) :
     GetMemoryOffsetValue(node_group[i]) - GetMemoryOffsetValue(node_group[i - 1])
       >= kSimd128Size

IsContinuousAccess(node_group) ==
  \A i \in 2..Len(node_group) :
     GetMemoryOffsetValue(node_group[i]) - GetMemoryOffsetValue(node_group[i - 1])
       = kSimd128Size

AllConstant(node_group) ==
  \A i \in 1..Len(node_group) : IsConstant(node_group[i])

AllSameAddress(nodes) ==
  \A i \in 2..Len(nodes) : GetNodeAddress(nodes[i]) = GetNodeAddress(nodes[1])

IsSplat(node_group) ==
  \A i \in 2..Len(node_group) : node_group[i] = node_group[1]

AllSameOperator(node_group) ==
  \A i \in 2..Len(node_group) : Op(node_group[i]) = Op(node_group[1])

\* MemoryOffsetComparer::operator()
MemoryOffsetComparer(lhs, rhs) ==
  GetMemoryOffsetValue(lhs) < GetMemoryOffsetValue(rhs)

\* std::partial_sort_copy of a two-element group into a two-element vector
SortedByOffset(node_group) ==
  IF MemoryOffsetComparer(node_group[2], node_group[1])
  THEN <<node_group[2], node_group[1]>>
  ELSE node_group

(***************************************************************************)
(* PackNode and the SLPTree state.  An SLPTree state st is the record      *)
(* [stack_, on_stack_, node_to_packnode_, packs]; packs is the zone: the   *)
(* PackNode with pointer p is packs[p].  built_from is the number of       *)
(* PackNodes the zone held when the current BuildTree began.               *)
(***************************************************************************)
PackNode(node_group) == [nodes |-> node_group, operands |-> <<>>]

\* PackNode::IsSame
IsSame(pnode, node_group) == pnode.nodes = node_group

\* PackNode::SetOperand: resize operands_ to index + 1, then store
SetOperand(pnode, index, child) ==
  LET n == IF Len(pnode.operands) < index + 1 THEN index + 1
           ELSE Len(pnode.operands)
  IN [pnode EXCEPT !.operands =
        [k \in 1..n |-> IF k = index + 1 THEN child
                        ELSE IF k <= Len(pnode.operands) THEN pnode.operands[k]
                        ELSE NoPack]]

\* CanBePacked without the basic block test
CanBePacked_AnyBlock(node_group) ==
  IF ~AllSameOperator(node_group) THEN FALSE
  ELSE IF AllConstant(node_group) THEN FALSE
  ELSE LET op == Opcode(node_group[1]) IN
       \/ IsSimd128Operation(node_group[1])
       \/ op \in {"Store", "ProtectedStore", "Load", "ProtectedLoad", "Phi",
                  "LoopExitValue", "ExtractF128"}

CanBePacked(node_group) ==
  IF ~SameBasicBlock(node_group[1], node_group[2]) THEN FALSE
  ELSE IF ~AllSameOperator(node_group) THEN FALSE
  ELSE IF AllConstant(node_group) THEN FALSE
  ELSE LET op == Opcode(node_group[1]) IN
       \/ IsSimd128Operation(node_group[1])
       \/ op \in {"Store", "ProtectedStore", "Load", "ProtectedLoad", "Phi",
                  "LoopExitValue", "ExtractF128"}

NewPackNode(st, node_group) ==
  LET pnode == Len(st.packs) + 1
      reg == st.node_to_packnode_
  IN [st EXCEPT
        !.packs = Append(@, PackNode(node_group)),
        !.node_to_packnode_ =
           [n \in DOMAIN reg \cup {node_group[1], node_group[2]} |->
              IF n \in {node_group[1], node_group[2]} THEN pnode ELSE reg[n]]]

\* GetPackNode finding no entry for any node
GetPackNode_Miss(st, node) == NoPack

GetPackNode(st, node) ==
  IF node \in DOMAIN st.node_to_packnode_ THEN st.node_to_packnode_[node]
  ELSE NoPack

PushStack(st, node_group) ==
  [st EXCEPT !.on_stack_ = @ \cup {node_group[1], node_group[2]},
             !.stack_ = Append(@, node_group)]

\* PopStack taking the popped nodes out of the registry as well
PopStack_Unregister(st) ==
  LET node_group == st.stack_[Len(st.stack_)] IN
  [st EXCEPT !.on_stack_ = @ \ {node_group[1], node_group[2]},
             !.stack_ = SubSeq(@, 1, Len(@) - 1),
             !.node_to_packnode_ =
                [n \in DOMAIN @ \ {node_group[1], node_group[2]} |-> @[n]]]

\* PopStack leaving the popped nodes in on_stack_
PopStack_KeepOnStack(st) ==
  [st EXCEPT !.stack_ = SubSeq(@, 1, Len(@) - 1)]

PopStack(st) ==
  LET node_group == st.stack_[Len(st.stack_)] IN
  [st EXCEPT !.on_stack_ = @ \ {node_group[1], node_group[2]},
             !.stack_ = SubSeq(@, 1, Len(@) - 1)]

OnStack(st, node) == node \in st.on_stack_

AllOnStack(st, node_group) ==
  \E i \in 1..Len(node_group) : OnStack(st, node_group[i])

StackTopIsPhi(st) == IsPhi(st.stack_[Len(st.stack_)][1])

ClearStack(st) == [st EXCEPT !.stack_ = <<>>, !.on_stack_ = {}]

\* DeleteTree clearing the stack but not the registry
DeleteTree_KeepRegistry(st) == ClearStack(st)

DeleteTree(st) == [ClearStack(st) EXCEPT !.node_to_packnode_ = <<>>]

(***************************************************************************)
(* IsSideEffectFreeLoad: the work list is a stack (a sequence, top last).  *)
(***************************************************************************)
\* the inputs before the first control index, in push order
NonControlInputs(node) ==
  [j \in 1..FirstControlIndex(node) |-> InputAt(node, j - 1)]

SelectSeq2(s, node_group) ==
  SelectSeq(s, LAMBDA x : x # node_group[1] /\ x # node_group[2])

\* a work list started from the inputs of the first load only
InitialToVisit_Lane0(node_group) ==
  SelectSeq2(NonControlInputs(node_group[1]), node_group)

InitialToVisit(node_group) ==
  SelectSeq2(NonControlInputs(node_group[1]), node_group)
    \o SelectSeq2(NonControlInputs(node_group[2]), node_group)

\* the loop over the work list: the result (free), and the nodes whose
\* inputs were pushed (expanded), in the order of their expansion
RECURSIVE VisitLoop(_, _, _, _, _)
VisitLoop(st, node_group, to_visit, visited, expanded) ==
  IF to_visit = <<>> THEN [free |-> TRUE, expanded |-> expanded]
  ELSE LET input == to_visit[Len(to_visit)]
           rest == SubSeq(to_visit, 1, Len(to_visit) - 1)
       IN IF input \in visited
          THEN VisitLoop(st, node_group, rest, visited, expanded)
          ELSE IF OnStack(st, input) THEN [free |-> FALSE, expanded |-> expanded]
          ELSE IF SameBasicBlock(input, node_group[1])
               THEN VisitLoop(st, node_group, rest \o NonControlInputs(input),
                              visited \cup {input}, Append(expanded, input))
               ELSE VisitLoop(st, node_group, rest, visited \cup {input}, expanded)

IsSideEffectFreeLoad(st, node_group) ==
  VisitLoop(st, node_group, InitialToVisit(node_group), {}, <<>>).free

(***************************************************************************)
(* BuildTreeRec up to its first recursive call.  The result names the      *)
(* SLPTree state reached, the pack returned (or created), whether          *)
(* NewPackNodeAndRecurs goes on to recurse over operands start_index ..    *)
(* start_index + count - 1, and the TRACE line of the path taken.          *)
(***************************************************************************)
Returns(st, pnode, why) ==
  [st |-> st, pnode |-> pnode, recurs |-> FALSE, start_index |-> 0,
   count |-> 0, why |-> why]

\* a NewPackNodeAndRecurs whose loop stops after the first operand
Recurs_FirstOnly(st, node_group, start_index, count, why) ==
  [st |-> NewPackNode(st, node_group), pnode |-> Len(st.packs) + 1,
   recurs |-> TRUE, start_index |-> start_index,
   count |-> IF count > 1 THEN 1 ELSE count, why |-> why]

\* NewPackNodeAndRecurs up to its loop: the pack is created and registered
Recurs(st, node_group, start_index, count, why) ==
  [st |-> NewPackNode(st, node_group), pnode |-> Len(st.packs) + 1,
   recurs |-> TRUE, start_index |-> start_index, count |-> count, why |-> why]

\* a duplicate-entry loop that looks at lane 0 only
FirstRegistered_Lane0(st, node_group) == GetPackNode(st, node_group[1])

\* the duplicate-entry loop: the pack of the first registered node, if any
FirstRegistered(st, node_group) ==
  IF GetPackNode(st, node_group[1]) # NoPack
  THEN GetPackNode(st, node_group[1])
  ELSE GetPackNode(st, node_group[2])

\* the ExtractF128 leaf comparing lane parameters, not nodes, under a LoadTransform
ExtractLeaf_SameLane(st, node_group) ==
  LET node0 == node_group[1]
      node1 == node_group[2]
  IN IF /\ InputAt(node0, 0) = InputAt(node1, 0)
        /\ IF Opcode(InputAt(node0, 0)) = "LoadTransform"
           THEN OpParameter(node0) = OpParameter(node1)
           ELSE OpParameter(node0) + 1 = OpParameter(node1)
     THEN Returns(PopStack(NewPackNode(st, node_group)), Len(st.packs) + 1,
                  "Added a pair of Extract")
     ELSE Returns(st, NoPack, "Failed due to ExtractF128")

ExtractLeaf(st, node_group) ==
  LET node0 == node_group[1]
      node1 == node_group[2]
  IN IF /\ InputAt(node0, 0) = InputAt(node1, 0)
        /\ IF Opcode(InputAt(node0, 0)) = "LoadTransform"
           THEN node0 = node1
           ELSE OpParameter(node0) + 1 = OpParameter(node1)
     THEN Returns(PopStack(NewPackNode(st, node_group)), Len(st.packs) + 1,
                  "Added a pair of Extract")
     ELSE Returns(st, NoPack, "Failed due to ExtractF128")

LoadLeaf(st, node_group) ==
  LET node0 == node_group[1] IN
  IF ~AllSameAddress(node_group)
  THEN Returns(st, NoPack, "Failed due to different load addr")
  ELSE IF /\ Opcode(node0) = "ProtectedLoad"
          /\ graph.nodes[node0].rep # "kSimd128"
  THEN Returns(st, NoPack, "Load representation")
  ELSE IF /\ Opcode(node0) = "ProtectedLoad"
          /\ ~IsContinuousAccess(SortedByOffset(node_group))
  THEN Returns(st, NoPack, "Failed due to non-continuous load")
  ELSE IF /\ Opcode(node0) = "LoadTransform"
          /\ ~IsSplat(node_group)
  THEN Returns(st, NoPack, "LoadTransform Failed due to IsSplat")
  ELSE IF /\ Opcode(node0) = "LoadTransform"
          /\ graph.nodes[node0].xform \notin {"kS128Load32Splat", "kS128Load64Splat"}
  THEN Returns(st, NoPack, "LoadTransform failed due to unsupported type")
  ELSE IF ~IsSideEffectFreeLoad(st, node_group)
  THEN Returns(st, NoPack, "Failed due to dependency check")
  ELSE Returns(PopStack(NewPackNode(st, node_group)), Len(st.packs) + 1,
               "Load leaf node")

Dispatch(st, node_group) ==
  LET node0 == node_group[1]
      value_in_count == ValueInputCount(node0)
  IN IF Opcode(node0) = "ExtractF128" THEN ExtractLeaf(st, node_group)
     ELSE IF Opcode(node0) \in {"ProtectedLoad", "LoadTransform"}
     THEN LoadLeaf(st, node_group)
     ELSE IF Opcode(node0) \in {"Phi", "LoopExitValue"}
     THEN IF graph.nodes[node0].rep # "kSimd128"
          THEN Returns(st, NoPack, "Phi representation")
          ELSE Recurs(st, node_group, 0, value_in_count, "Added a vector of PHI nodes")
     ELSE IF Opcode(node0) \in {"F32x4Add", "F32x4Mul"}
     THEN Recurs(st, node_group, 0, value_in_count, "Added a vector of un/bin/ter op")
     ELSE IF Opcode(node0) \in {"Store", "ProtectedStore"}
     THEN IF ~AllSameAddress(node_group)
          THEN Returns(st, NoPack, "Failed due to different store addr")
          ELSE Recurs(st, node_group, 2, 1, "Added a vector of stores")
     ELSE Returns(st, NoPack, "Default branch")

\* no depth cap
DepthCapReached_Never(recursion_depth) == FALSE

\* a depth cap that lets depth RecursionMaxDepth through
DepthCapReached_Beyond(recursion_depth) == recursion_depth > RecursionMaxDepth

\* the depth cap of BuildTreeRec
DepthCapReached(recursion_depth) == recursion_depth = RecursionMaxDepth

BuildTreeRec(st, node_group, recursion_depth) ==
  IF DepthCapReached(recursion_depth)
  THEN Returns(st, NoPack, "Failed due to max recursion depth")
  ELSE IF AllOnStack(st, node_group) /\ ~StackTopIsPhi(st)
  THEN Returns(st, NoPack, "Failed due to on stack")
  ELSE LET pushed == PushStack(st, node_group)
           p == FirstRegistered(pushed, node_group)
       IN IF ~CanBePacked(node_group)
          THEN Returns(pushed, NoPack, "Can not be packed")
          ELSE IF p # NoPack
          THEN IF ~IsSame(pushed.packs[p], node_group)
               THEN Returns(pushed, NoPack, "Failed due to partial overlap")
               ELSE Returns(PopStack(pushed), p, "Perfect diamond merge")
          ELSE Dispatch(pushed, node_group)

\* an operand loop that goes on after a child that is null
ChildPacked_Always(child) == TRUE

\* the test of the child in the operand loop of NewPackNodeAndRecurs: the
\* loop sets the operand and goes on, or returns null
ChildPacked(child) == child # NoPack

\* the operand vector NewPackNodeAndRecurs prepares for operand i
Operands(node_group, i) ==
  <<GetValueInput(node_group[1], i), GetValueInput(node_group[2], i)>>

(***************************************************************************)
(* Seed collection.  group_of_stores_ is a map dominator -> (address ->    *)
(* StoreNodeSet); a map is a function whose domain is its key set, and a   *)
(* StoreNodeSet (a std::set ordered by MemoryOffsetComparer) is the        *)
(* sequence of its members in iteration order.                             *)
(***************************************************************************)
EmptyMap == <<>>

MapPut(m, k, v) == [x \in DOMAIN m \cup {k} |-> IF x = k THEN v ELSE m[x]]

\* an insert that keeps equivalent elements (a multiset)
StoreNodeSetInsert_Multi(set, node) ==
  LET k == Cardinality({i \in 1..Len(set) : ~MemoryOffsetComparer(node, set[i])})
  IN SubSeq(set, 1, k) \o <<node>> \o SubSeq(set, k + 1, Len(set))

\* std::set::insert: an element equivalent under the comparer is kept and
\* the new one dropped; otherwise the new one goes before the first greater.
StoreNodeSetInsert(set, node) ==
  IF \E i \in 1..Len(set) : /\ ~MemoryOffsetComparer(set[i], node)
                            /\ ~MemoryOffsetComparer(node, set[i])
  THEN set
  ELSE LET k == Cardinality({i \in 1..Len(set) : MemoryOffsetComparer(set[i], node)})
       IN SubSeq(set, 1, k) \o <<node>> \o SubSeq(set, k + 1, Len(set))

\* CollectSeeds without the alignment gate
IsSeedCandidate_Any(node) == TRUE

\* the alignment gate of CollectSeeds
IsSeedCandidate(node) ==
  CppMod(GetMemoryOffsetValue(node), kSimd128Size) = 0

\* one iteration of the loop of CollectSeeds
CollectSeed(gos, node) ==
  LET dominator == GetEarlySchedulePosition(node) IN
  IF ~IsSeedCandidate(node) THEN gos
  ELSE LET address == GetNodeAddress(node)
           store_nodes == IF dominator \in DOMAIN gos THEN gos[dominator]
                          ELSE EmptyMap
           set == IF address \in DOMAIN store_nodes THEN store_nodes[address]
                  ELSE <<>>
       IN MapPut(gos, dominator,
                 MapPut(store_nodes, address, StoreNodeSetInsert(set, node)))

RECURSIVE CollectSeedsFrom(_, _)
CollectSeedsFrom(gos, i) ==
  IF i > Len(GetSimdStoreNodes) THEN gos
  ELSE CollectSeedsFrom(CollectSeed(gos, GetSimdStoreNodes[i]), i + 1)

CollectSeeds(gos) == CollectSeedsFrom(gos, 1)

(***************************************************************************)
(* The driver's loops.  group_of_stores_ does not change while chains are  *)
(* reduced, so the nested loops of TryRevectorize and ReduceStoreChains    *)
(* are the sequence of stores_unit vectors they pass to ReduceStoreChain.  *)
(***************************************************************************)
\* The keys of a ZoneMap<Node*, ...> in the order its iteration visits
\* them: the order of the Node* pointers, given as the sequence of the key
\* nodes from the lowest pointer up.
KeysInOrder(S, order) ==
  LET IsKey(node) == node \in S IN SelectSeq(order, IsKey)

\* the size test without the parity condition
ChainIsReducible_AnyParity(size) == size >= 2

\* the size test of ReduceStoreChains
ChainIsReducible(size) == size >= 2 /\ size % 2 = 0

\* the inner loop of ReduceStoreChains over one chain
ChainUnits(dominator, address, store_chain) ==
  IF ChainIsReducible(Len(store_chain))
  THEN [k \in 1..(Len(store_chain) \div 2) |->
          [stores |-> SubSeq(store_chain, 2 * k - 1, 2 * k),
           dominator |-> dominator, address |-> address,
           size |-> Len(store_chain), pos |-> 2 * (k - 1)]]
  ELSE <<>>

RECURSIVE ConcatAll(_)
ConcatAll(ss) == IF ss = <<>> THEN <<>> ELSE Head(ss) \o ConcatAll(Tail(ss))

ReduceStoreChainsUnits(dominator, store_chains) ==
  LET keys == KeysInOrder(DOMAIN store_chains, ptr_order.addresses) IN
  ConcatAll([c \in 1..Len(keys) |->
               ChainUnits(dominator, keys[c], store_chains[keys[c]])])

TryRevectorizeUnits(gos) ==
  LET keys == KeysInOrder(DOMAIN gos, ptr_order.dominators) IN
  ConcatAll([d \in 1..Len(keys) |-> ReduceStoreChainsUnits(keys[d], gos[keys[d]])])

\* the loops giving up after a stores_unit that was not reduced
RemainingUnits_StopOnFailure(stores_units, reduced) ==
  IF reduced THEN Tail(stores_units) ELSE <<>>

\* the loops of ReduceStoreChains and TryRevectorize after a ReduceStoreChain
\* call: they go on to the next stores_unit whatever the call returned
RemainingUnits(stores_units, reduced) == Tail(stores_units)

\* the sequences that list every member of S once
RECURSIVE Orderings(_)
Orderings(S) ==
  IF S = {} THEN {<<>>}
  ELSE UNION {{<<node>> \o o : o \in Orderings(S \ {node})} : node \in S}

\* the place of a node in a sequence that lists it once
PlaceIn(o, node) == CHOOSE i \in 1..Len(o) : o[i] = node

\* The orders the Node* pointers of the map keys of this graph can have: one
\* order of the dominator keys of group_of_stores_ and one of the address
\* keys of the store_chains maps, the two agreeing on the nodes in both.
\* Nothing ties the address of a node to its number.
PointerOrders ==
  LET seeds == {GetSimdStoreNodes[i] : i \in
                  {j \in 1..Len(GetSimdStoreNodes) :
                     IsSeedCandidate(GetSimdStoreNodes[j])}}
      dominators == {GetEarlySchedulePosition(node) : node \in seeds}
      addresses == {GetNodeAddress(node) : node \in seeds}
  IN {q \in [dominators : Orderings(dominators), addresses : Orderings(addresses)] :
        \A a, b \in dominators \cap addresses :
          (PlaceIn(q.dominators, a) < PlaceIn(q.dominators, b))
            <=> (PlaceIn(q.addresses, a) < PlaceIn(q.addresses, b))}

\* the gate of TryRevectorize
TryRevectorizeGate == support_simd256_ /\ Len(GetSimdStoreNodes) # 0

(***************************************************************************)
(* The shape of the tree below a root pack: the member pair of the root    *)
(* and the operand wiring between member pairs.                            *)
(***************************************************************************)
RECURSIVE ReachablePacks(_, _, _)
ReachablePacks(zone, frontier, seen) ==
  IF frontier = {} THEN seen
  ELSE LET children == {c \in 1..Len(zone) :
                          \E p \in frontier : \E k \in 1..Len(zone[p].operands) :
                             zone[p].operands[k] = c}
       IN ReachablePacks(zone, children \ (seen \cup frontier), seen \cup frontier)

\* the operand positions of pack p that hold a child
SetOperands(zone, p) ==
  {k \in 1..Len(zone[p].operands) : zone[p].operands[k] # NoPack}

TreeShape(zone, root) ==
  IF root = NoPack THEN [built |-> FALSE, root |-> <<>>, wiring |-> {}]
  ELSE [built |-> TRUE, root |-> zone[root].nodes,
        wiring |-> UNION {{<<zone[p].nodes, k - 1, zone[zone[p].operands[k]].nodes>> :
                             k \in SetOperands(zone, p)} :
                          p \in ReachablePacks(zone, {root}, {})}]

(***************************************************************************)
(* The graphs.  Nodes 1..5 are common to all of them: the memory start,    *)
(* the index, the constant 16, memory start + 16 and the effect origin.    *)
(* Operators are cached per opcode and parameter, so nodes built from the  *)
(* same operator share its identity.                                       *)
(***************************************************************************)
Prelude ==
  << Nd("LoadFromObject", 1, 0, "none", "none", <<>>, 0, 0),
     Nd("Parameter", 2, 0, "none", "none", <<>>, 0, 0),
     Nd("Int64Constant", 3, 16, "none", "none", <<>>, 0, 0),
     Nd("Int64Add", 4, 0, "none", "none", <<1, 3>>, 2, 1),
     Nd("Start", 5, 0, "none", "none", <<>>, 0, 0) >>

PLoad(off, idx, eff) ==
  Nd("ProtectedLoad", 10, 0, "kSimd128", "none", <<off, idx, eff>>, 2, 1)
PLoadRep(off, idx, eff, r) ==
  Nd("ProtectedLoad", IF r = "kSimd128" THEN 10 ELSE 16, 0, r, "none",
     <<off, idx, eff>>, 2, 1)
F32x4Add(a, b) == Nd("F32x4Add", 11, 0, "none", "none", <<a, b>>, 2, 1)
F32x4Mul(a, b) == Nd("F32x4Mul", 13, 0, "none", "none", <<a, b>>, 2, 1)
F32x4Sub(a, b) == Nd("F32x4Sub", 20, 0, "none", "none", <<a, b>>, 2, 1)
PStore(off, idx, val, eff) ==
  Nd("ProtectedStore", 12, 0, "none", "none", <<off, idx, val, eff>>, 3, 1)
Phi(a, b, r) ==
  Nd("Phi", IF r = "kSimd128" THEN 14 ELSE 17, 0, r, "none", <<a, b>>, 2, 1)
LoopExitValue(a, r) ==
  Nd("LoopExitValue", IF r = "kSimd128" THEN 15 ELSE 18, 0, r, "none", <<a>>, 1, 1)
ExtractF128(src, lane, o) ==
  Nd("ExtractF128", o, lane, "none", "none", <<src>>, 1, 1)
LoadTransform(off, idx, eff, x, o) ==
  Nd("LoadTransform", o, 0, "none", x, <<off, idx, eff>>, 2, 1)
Other(opc, o, ins) == Nd(opc, o, 0, "none", "none", ins, Len(ins), 1)

G(nodes, stores) == [nodes |-> Prelude \o nodes, stores |-> stores]

\* scenario 1: two contiguous stores of F32x4Add pairs of contiguous loads
AddOfLoads ==
  G(<< PLoad(1, 2, 5), PLoad(4, 2, 6), PLoad(1, 2, 7), PLoad(4, 2, 8),
       F32x4Add(6, 8), F32x4Add(7, 9),
       PStore(1, 2, 10, 9), PStore(4, 2, 11, 12) >>, <<12, 13>>)

\* scenario 5: the loads #L (6,7) are reached through several F32x4Mul pairs
Diamond ==
  G(<< PLoad(1, 2, 5), PLoad(4, 2, 6),
       F32x4Mul(6, 6), F32x4Mul(7, 7), F32x4Mul(8, 6), F32x4Mul(9, 7),
       F32x4Add(8, 10), F32x4Add(9, 11),
       PStore(1, 2, 12, 7), PStore(4, 2, 13, 14) >>, <<14, 15>>)

\* a loop: p = Phi(init, v), v = F32x4Add(p, x); the stores store v
\* (fromPhi = FALSE) or p (fromPhi = TRUE); the loads x are in block xblk
\* and take their index from node xidx (2: the common index, 16: a lane of
\* the scalar loop phi q = Phi(16, v) of block xblk)
PhiLoop(fromPhi, xidx, xblk) ==
  G(<< PLoad(1, 2, 5), PLoad(4, 2, 6),
       [PLoad(1, xidx, 7) EXCEPT !.block = xblk],
       [PLoad(4, xidx, 8) EXCEPT !.block = xblk],
       Phi(6, 12, "kSimd128"), Phi(7, 13, "kSimd128"),
       F32x4Add(10, 8), F32x4Add(11, 9),
       PStore(1, 2, IF fromPhi THEN 10 ELSE 12, 9),
       PStore(4, 2, IF fromPhi THEN 11 ELSE 13, 14),
       [Other("I32x4ExtractLane", 21, <<17>>) EXCEPT !.block = xblk],
       [Phi(3, 12, "kWord32") EXCEPT !.block = xblk] >>, <<14, 15>>)

PhiLoops == {PhiLoop(f, x, b) : f \in BOOLEAN, x \in {2, 16}, b \in {1, 2}}

\* the phi loop with a cycle through no phi: p = Phi(init, v),
\* v = F32x4Add(p, w), w = F32x4Mul(v, x); the stores store v
PhiCycle ==
  G(<< PLoad(1, 2, 5), PLoad(4, 2, 6), PLoad(1, 2, 7), PLoad(4, 2, 8),
       Phi(6, 12, "kSimd128"), Phi(7, 13, "kSimd128"),
       F32x4Add(10, 14), F32x4Add(11, 15),
       F32x4Mul(12, 8), F32x4Mul(13, 9),
       PStore(1, 2, 12, 9), PStore(4, 2, 13, 16) >>, <<16, 17>>)

\* two phi pairs that feed each other: a = Phi(b, la), b = Phi(a, lb)
PhiPhi ==
  G(<< PLoad(1, 2, 5), PLoad(4, 2, 6), PLoad(1, 2, 7), PLoad(4, 2, 8),
       Phi(12, 6, "kSimd128"), Phi(13, 7, "kSimd128"),
       Phi(10, 8, "kSimd128"), Phi(11, 9, "kSimd128"),
       PStore(1, 2, 10, 9), PStore(4, 2, 11, 14) >>, <<14, 15>>)

\* the stores store ExtractF128 halves of node 6
Extract(srcIsLoadTransform, lane0, lane1, op0, op1, sameNode) ==
  G(<< IF srcIsLoadTransform
       THEN LoadTransform(1, 2, 5, "kS128Load32Splat", 19)
       ELSE Other("F32x8Add", 22, <<1, 1>>),
       ExtractF128(6, lane0, op0), ExtractF128(6, lane1, op1),
       PStore(1, 2, 7, 5), PStore(4, 2, IF sameNode THEN 7 ELSE 8, 9) >>,
    <<9, 10>>)

Extracts ==
  {Extract(s, 0, 1, 23, 24, FALSE) : s \in BOOLEAN} \cup
  {Extract(s, 1, 0, 23, 24, FALSE) : s \in BOOLEAN} \cup
  {Extract(s, 0, 0, 23, 24, FALSE) : s \in BOOLEAN} \cup
  {Extract(s, 0, 0, 23, 23, FALSE) : s \in BOOLEAN} \cup
  {Extract(s, 0, 0, 23, 23, TRUE) : s \in BOOLEAN}

\* F32x4Mul(load, splat): the splat operand is the LoadTransform pair (6, lt1)
Splat(x, lt1) ==
  G(<< LoadTransform(1, 2, 5, x, 19), LoadTransform(1, 2, 5, x, 19),
       PLoad(1, 2, 5), PLoad(4, 2, 8),
       F32x4Mul(8, 6), F32x4Mul(9, lt1),
       PStore(1, 2, 10, 9), PStore(4, 2, 11, 12) >>, <<12, 13>>)

Splats ==
  {Splat(x, 6) : x \in {"kS128Load32Splat", "kS128Load64Splat", "kS128Load8x8S"}}
    \cup {Splat("kS128Load32Splat", 7)}

\* the stores store LoopExitValue(load) with representation r
LoopExit(r) ==
  G(<< PLoad(1, 2, 5), PLoad(4, 2, 6),
       LoopExitValue(6, r), LoopExitValue(7, r),
       PStore(1, 2, 8, 7), PStore(4, 2, 9, 10) >>, <<10, 11>>)

\* the stores store the pair (v, v) of one node of opcode opc
SameValue(opc) ==
  G(<< PLoad(1, 2, 5), PLoad(4, 2, 6),
       IF opc = "Int64Constant" THEN Nd(opc, 25, 7, "none", "none", <<>>, 0, 1)
       ELSE IF opc = "Load" THEN Other(opc, 26, <<1, 2, 5>>)
       ELSE IF opc = "Phi" THEN Phi(6, 7, "kWord64")
       ELSE F32x4Sub(6, 7),
       PStore(1, 2, 8, 7), PStore(4, 2, 8, 9) >>, <<9, 10>>)

SameValues == {SameValue(o) : o \in {"Int64Constant", "Load", "Phi", "F32x4Sub"}}

BaseGraphs ==
  {AddOfLoads, Diamond, PhiPhi, PhiCycle}
    \cup PhiLoops \cup Extracts \cup Splats \cup {LoopExit(r) : r \in {"kSimd128", "kWord64"}}
    \cup SameValues

\* a chain of k F32x4Add pairs below the stores; each pair adds the loads
\* (6, 7) and the next pair of the chain, the last one the loads twice.
\* deepFirst puts the next pair at operand 0, before the loads.
Chain(k, deepFirst) ==
  G([j \in 1..(2 * k + 4) |->
       IF j = 1 THEN PLoad(1, 2, 5)
       ELSE IF j = 2 THEN PLoad(4, 2, 6)
       ELSE IF j = 2 * k + 3 THEN PStore(1, 2, 8, 7)
       ELSE IF j = 2 * k + 4 THEN PStore(4, 2, 9, 2 * k + 8)
       ELSE LET lane == (j - 1) % 2
                level == (j - 1) \div 2
                load == 6 + lane
                next == IF level = k THEN load ELSE 5 + j + 2
            IN IF deepFirst THEN F32x4Add(next, load) ELSE F32x4Add(load, next)],
    <<2 * k + 8, 2 * k + 9>>)

Chains == {Chain(k, d) : k \in 1..MaxChain, d \in BOOLEAN}

\* Store layouts: store i stores the load of its own address, at offset
\* offs[i] from the memory start.  Node 6 is a second index and node 7 the
\* common index behind ChangeUint32ToUint64; store i owns the nodes
\* 4i+4 (constant), 4i+5 (Int64Add), 4i+6 (load) and 4i+7 (store).
LayoutOffset(offs, variant, i) ==
  IF variant = "negative" THEN offs[i] - 32
  ELSE IF variant = "misaligned" /\ i = Len(offs) THEN offs[i] - 4
  ELSE offs[i]

LayoutNode(offs, variant, j) ==
  IF j = 1 THEN Nd("Parameter", 27, 0, "none", "none", <<>>, 0, 0)
  ELSE IF j = 2 THEN Other("ChangeUint32ToUint64", 28, <<2>>)
  ELSE LET i == (j - 3) \div 4 + 1
           n == Len(offs)
           b == 4 * i + 3
           off == LayoutOffset(offs, variant, i)
           odd == (variant = "int32" \/ variant = "shape") /\ i = 1
           offnode == IF off = 0 /\ variant = "plain" THEN 1 ELSE b + 2
       IN CASE (j - 3) % 4 = 0 ->
                 IF variant = "int32" /\ i = 1
                 THEN Nd("Int32Constant", 200 + off, off, "none", "none", <<>>, 0, 0)
                 ELSE Nd("Int64Constant", 100 + off, off, "none", "none", <<>>, 0, 0)
            [] (j - 3) % 4 = 1 ->
                 Nd("Int64Add", 4, 0, "none", "none",
                    IF variant = "shape" /\ i = 1 THEN <<1, 2>>
                    ELSE IF variant = "constfirst" THEN <<b + 1, 1>>
                    ELSE <<1, b + 1>>, 2, 1)
            [] (j - 3) % 4 = 2 ->
                 PLoadRep(offnode, 2, IF i = 1 THEN 5 ELSE b - 1,
                          IF variant = "badrep" /\ i = n THEN "kWord64"
                          ELSE "kSimd128")
            [] OTHER ->
                 [PStore(offnode,
                         IF variant = "address" /\ i = n THEN 6
                         ELSE IF variant = "pairs" /\ i >= 3 THEN 6
                         ELSE IF variant = "uint32" /\ i = n THEN 7 ELSE 2,
                         b + 3,
                         IF i = 1 THEN 4 * n + 6 ELSE b)
                    EXCEPT !.esp = IF variant = "dominator" /\ i = n THEN 2 ELSE 1]

Layout(offs, variant) ==
  G([j \in 1..(4 * Len(offs) + 2) |-> LayoutNode(offs, variant, j)],
    [i \in 1..Len(offs) |-> 4 * i + 7])

LayoutVariants ==
  {"plain", "negative", "misaligned", "int32", "shape", "constfirst",
   "badrep", "address", "uint32", "dominator"}

LayoutOffsets == {0, 16, 32, 48}

\* two chains of two stores: stores 1, 2 at the index 2 and stores 3, 4 at
\* the index 6, every order of offsets
TwoChains == {Layout(offs, "pairs") : offs \in [1..4 -> LayoutOffsets]}

\* every order of offsets as it is; the variants on ascending offsets
Layouts ==
  UNION {{Layout(offs, "plain") : offs \in [1..n -> LayoutOffsets]}
           \cup {Layout(offs, v) :
                   offs \in {o \in [1..n -> LayoutOffsets] :
                               \A i \in 1..(n - 1) : o[i] < o[i + 1]},
                   v \in LayoutVariants} :
           n \in 0..MaxStores}

\* One change to a base graph: an input rewired to another node, a node
\* moved to another basic block, or a node given an operator of its own.
Rewired(g) ==
  UNION {{[g EXCEPT !.nodes[n].in[j] = m] : m \in 1..Len(g.nodes)} :
           <<n, j>> \in {<<n2, j2>> \in (1..Len(g.nodes)) \X (1..4) :
                           j2 <= Len(g.nodes[n2].in)}}

Moved(g) == {[g EXCEPT !.nodes[n].block = 2] : n \in 1..Len(g.nodes)}

Reoperated(g) == {[g EXCEPT !.nodes[n].op = 99] : n \in 1..Len(g.nodes)}

\* the base graphs that are also taken with one change
PerturbedGraphs ==
  {AddOfLoads, Diamond, PhiPhi, LoopExit("kSimd128"),
   Extract(FALSE, 0, 1, 23, 24, FALSE), Extract(TRUE, 0, 0, 23, 23, TRUE),
   Splat("kS128Load32Splat", 6), Chain(2, FALSE)}
    \cup PhiLoops

Graphs ==
  BaseGraphs \cup Chains \cup Layouts \cup TwoChains
    \cup UNION {Rewired(g) \cup Moved(g) \cup Reoperated(g) : g \in PerturbedGraphs}

(***************************************************************************)
(* The state machine.                                                      *)
(***************************************************************************)
SLPTreeState ==
  [stack_ |-> stack_, on_stack_ |-> on_stack_,
   node_to_packnode_ |-> node_to_packnode_, packs |-> packs]

SetSLPTree(st) ==
  /\ stack_' = st.stack_
  /\ on_stack_' = st.on_stack_
  /\ node_to_packnode_' = st.node_to_packnode_
  /\ packs' = st.packs

NoTrace == [why |-> "", node_group |-> <<>>, recursion_depth |-> 0, pnode |-> NoPack]

InitOver(graphs) ==
  /\ graph \in graphs
  /\ ptr_order \in PointerOrders
  /\ support_simd256_ \in BOOLEAN
  /\ group_of_stores_ = EmptyMap
  /\ stack_ = <<>>
  /\ on_stack_ = {}
  /\ node_to_packnode_ = EmptyMap
  /\ packs = <<>>
  /\ root_ = NoPack
  /\ pc = "idle"
  /\ arg = [node_group |-> <<>>, recursion_depth |-> 0]
  /\ ret = NoPack
  /\ frames = <<>>
  /\ units = <<>>
  /\ success = FALSE
  /\ calls = 0
  /\ trace = NoTrace
  /\ attempts = <<>>
  /\ built_from = 0
  /\ last_result = FALSE

Init == InitOver(Graphs)

\* TryRevectorize up to its first ReduceStoreChain: the gate, CollectSeeds
\* and the start of the loops; with the gate closed it returns false.
TryRevectorize ==
  /\ pc = "idle"
  /\ calls < MaxCalls
  /\ calls' = calls + 1
  /\ trace' = NoTrace
  /\ IF TryRevectorizeGate
     THEN /\ group_of_stores_' = CollectSeeds(group_of_stores_)
          /\ units' = TryRevectorizeUnits(group_of_stores_')
          /\ success' = FALSE
          /\ pc' = "reduce"
          /\ UNCHANGED last_result
     ELSE /\ last_result' = FALSE
          /\ UNCHANGED <<group_of_stores_, units, success, pc>>
  /\ UNCHANGED <<graph, ptr_order, support_simd256_, stack_, on_stack_, node_to_packnode_,
                 packs, root_, arg, ret, frames, attempts, built_from>>

\* ReduceStoreChain on the next stores_unit: not contiguous, it returns
\* false; contiguous, it calls BuildTree, which deletes the old tree and
\* calls BuildTreeRec(roots, 0).
ReduceStoreChain ==
  /\ pc = "reduce"
  /\ units # <<>>
  /\ LET Stores == Head(units).stores IN
     IF ~IsContinuousAccess(Stores)
     THEN /\ attempts' = Append(attempts, [unit |-> Head(units), build |-> FALSE,
                                           shape |-> TreeShape(packs, NoPack)])
          /\ units' = RemainingUnits(units, FALSE)
          /\ UNCHANGED <<stack_, on_stack_, node_to_packnode_, packs, pc, arg,
                         built_from>>
     ELSE /\ SetSLPTree(DeleteTree(SLPTreeState))
          /\ built_from' = Len(packs)
          /\ arg' = [node_group |-> Stores, recursion_depth |-> 0]
          /\ pc' = "call"
          /\ UNCHANGED <<attempts, units>>
  /\ trace' = NoTrace
  /\ UNCHANGED <<graph, ptr_order, support_simd256_, group_of_stores_, root_, ret, frames,
                 success, calls, last_result>>

\* the end of the loops of TryRevectorize: it returns success
TryRevectorizeReturn ==
  /\ pc = "reduce"
  /\ units = <<>>
  /\ last_result' = success
  /\ pc' = "idle"
  /\ trace' = NoTrace
  /\ UNCHANGED <<graph, ptr_order, support_simd256_, group_of_stores_, stack_, on_stack_,
                 node_to_packnode_, packs, root_, arg, ret, frames, units,
                 success, calls, attempts, built_from>>

\* One call of BuildTreeRec, up to its return or, through
\* NewPackNodeAndRecurs, up to the recursive call for the first operand.
BuildTreeRecCall ==
  /\ pc = "call"
  /\ LET r == BuildTreeRec(SLPTreeState, arg.node_group, arg.recursion_depth) IN
     /\ trace' = [why |-> r.why, node_group |-> arg.node_group,
                  recursion_depth |-> arg.recursion_depth, pnode |-> r.pnode]
     /\ IF r.recurs /\ r.count > 0
        THEN /\ SetSLPTree(r.st)
             /\ frames' = Append(frames,
                                 [node_group |-> arg.node_group,
                                  recursion_depth |-> arg.recursion_depth,
                                  pnode |-> r.pnode, i |-> r.start_index,
                                  start_index |-> r.start_index, count |-> r.count])
             /\ arg' = [node_group |-> Operands(arg.node_group, r.start_index),
                        recursion_depth |-> arg.recursion_depth + 1]
             /\ UNCHANGED <<pc, ret>>
        ELSE /\ SetSLPTree(IF r.recurs THEN PopStack(r.st) ELSE r.st)
             /\ ret' = r.pnode
             /\ pc' = "ret"
             /\ UNCHANGED <<frames, arg>>
  /\ UNCHANGED <<graph, ptr_order, support_simd256_, group_of_stores_, root_, units,
                 success, calls, attempts, built_from, last_result>>

\* A BuildTreeRec call returns into the loop of NewPackNodeAndRecurs: the
\* child is set as operand i and the next operand is recursed into, or the
\* loop ends (with the pack, or with null after a failed child) and the
\* calling BuildTreeRec pops the stack and returns.
BuildTreeRecReturn ==
  /\ pc = "ret"
  /\ frames # <<>>
  /\ LET f == frames[Len(frames)]
         child == ret
         rest == SubSeq(frames, 1, Len(frames) - 1)
     IN IF ChildPacked(child)
        THEN IF f.i + 1 < f.start_index + f.count
             THEN /\ packs' = [packs EXCEPT ![f.pnode] = SetOperand(@, f.i, child)]
                  /\ frames' = Append(rest, [f EXCEPT !.i = f.i + 1])
                  /\ arg' = [node_group |-> Operands(f.node_group, f.i + 1),
                             recursion_depth |-> f.recursion_depth + 1]
                  /\ pc' = "call"
                  /\ trace' = NoTrace
                  /\ UNCHANGED <<stack_, on_stack_, node_to_packnode_, ret>>
             ELSE /\ SetSLPTree(PopStack(
                       [SLPTreeState EXCEPT
                          !.packs[f.pnode] = SetOperand(@, f.i, child)]))
                  /\ frames' = rest
                  /\ ret' = f.pnode
                  /\ trace' = [why |-> "Operands packed", node_group |-> f.node_group,
                               recursion_depth |-> f.recursion_depth,
                               pnode |-> f.pnode]
                  /\ UNCHANGED <<pc, arg>>
        ELSE /\ SetSLPTree(PopStack(SLPTreeState))
             /\ frames' = rest
             /\ ret' = NoPack
             /\ trace' = [why |-> "Operand failed", node_group |-> f.node_group,
                          recursion_depth |-> f.recursion_depth, pnode |-> NoPack]
             /\ UNCHANGED <<pc, arg>>
  /\ UNCHANGED <<graph, ptr_order, support_simd256_, group_of_stores_, root_, units,
                 success, calls, attempts, built_from, last_result>>

\* BuildTreeRec(roots, 0) returns to BuildTree, which sets root_ and
\* returns it to ReduceStoreChain, which reports whether a root was built.
BuildTreeReturn ==
  /\ pc = "ret"
  /\ frames = <<>>
  /\ root_' = ret
  /\ success' = (success \/ ret # NoPack)
  /\ attempts' = Append(attempts, [unit |-> Head(units), build |-> TRUE,
                                   shape |-> TreeShape(packs, ret)])
  /\ units' = RemainingUnits(units, ret # NoPack)
  /\ pc' = "reduce"
  /\ trace' = NoTrace
  /\ UNCHANGED <<graph, ptr_order, support_simd256_, group_of_stores_, stack_, on_stack_,
                 node_to_packnode_, packs, arg, ret, frames, calls, built_from,
                 last_result>>

Next ==
  \/ TryRevectorize
  \/ ReduceStoreChain
  \/ TryRevectorizeReturn
  \/ BuildTreeRecCall
  \/ BuildTreeRecReturn
  \/ BuildTreeReturn

Spec == Init /\ [][Next]_vars

(***************************************************************************)
(* Properties.                                                             *)
(***************************************************************************)
\* the PackNodes created by the current (or last) BuildTree
CurrentPacks == (built_from + 1)..Len(packs)

\* the nodes of the groups on the recursion stack
StackMembers == UNION {{stack_[i][1], stack_[i][2]} : i \in 1..Len(stack_)}

\* the trace line is that of a BuildTreeRec call (not of a return into one)
CallTraced == trace.why \notin {"", "Operands packed", "Operand failed"}

InputsOf(node) == {graph.nodes[node].in[j] : j \in 1..Len(graph.nodes[node].in)}

\* C1: no IR node belongs to two PackNodes of a tree: every member of a
\* PackNode created by the current BuildTree is mapped by the registry to
\* exactly that PackNode, at every point of the call and after it.
C1_OnePackPerNode ==
  \A p \in CurrentPacks : \A i \in 1..2 :
     /\ packs[p].nodes[i] \in DOMAIN node_to_packnode_
     /\ node_to_packnode_[packs[p].nodes[i]] = p

\* a group was met again and merged while several packs exist
C1_Witness ==
  /\ trace.why = "Perfect diamond merge"
  /\ Cardinality(CurrentPacks) >= 3
  /\ trace.pnode \in CurrentPacks

\* C2 as claimed: whenever BuildTree is not running (before the first call
\* and after every return, with or without a root), the recursion stack
\* and the on-stack set are empty.
C2_EmptyAfterBuildTree ==
  pc \in {"idle", "reduce"} => stack_ = <<>> /\ on_stack_ = {}

\* C2 amended: after BuildTree returns a root the stack and the on-stack
\* set are empty; after it returns no pack the stack holds at most one
\* group, the root group of a BuildTree call, and the on-stack set holds
\* only nodes of that group.
C2_EmptyAfterRoot ==
  pc \in {"idle", "reduce"} =>
     /\ root_ # NoPack => stack_ = <<>> /\ on_stack_ = {}
     /\ Len(stack_) <= 1
     /\ on_stack_ \subseteq StackMembers
     /\ stack_ # <<>> =>
          \E i \in 1..Len(attempts) :
             attempts[i].build /\ attempts[i].unit.stores = stack_[1]

\* BuildTree returned a root after a recursion over several groups, after an
\* earlier BuildTree that returned no pack
C2_Witness ==
  /\ pc = "reduce"
  /\ root_ # NoPack
  /\ attempts # <<>>
  /\ attempts[Len(attempts)].build
  /\ Cardinality(CurrentPacks) >= 2
  /\ stack_ = <<>>
  /\ \E i \in 1..Len(attempts) : attempts[i].build /\ ~attempts[i].shape.built

\* the nodes IsSideEffectFreeLoad is to look at: reachable from the loads'
\* non-control inputs other than the loads themselves, following the inputs
\* of the nodes in the block of lane 0
RECURSIVE Cone(_, _, _)
Cone(node_group, frontier, seen) ==
  IF frontier = {} THEN seen
  ELSE LET next == UNION {InputsOf(n) :
                            n \in {m \in frontier : SameBasicBlock(m, node_group[1])}}
       IN Cone(node_group, next \ (seen \cup frontier), seen \cup frontier)

InputCone(node_group) ==
  Cone(node_group,
       (InputsOf(node_group[1]) \cup InputsOf(node_group[2]))
         \ {node_group[1], node_group[2]}, {})

\* C3: a leaf PackNode over two ProtectedLoads is created only when their
\* offsets are 16 apart, they share the address node and the Simd128
\* representation, and no node of their input cone is a member of a group
\* on the recursion stack (the loads' own group, just popped, included).
C3_LoadLeafIndependent ==
  (trace.why = "Load leaf node" /\ Opcode(trace.node_group[1]) = "ProtectedLoad") =>
     LET a == trace.node_group[1]
         b == trace.node_group[2]
     IN /\ \/ GetMemoryOffsetValue(b) - GetMemoryOffsetValue(a) = 16
           \/ GetMemoryOffsetValue(a) - GetMemoryOffsetValue(b) = 16
        /\ GetNodeAddress(a) = GetNodeAddress(b)
        /\ graph.nodes[a].rep = "kSimd128" /\ graph.nodes[b].rep = "kSimd128"
        /\ InputCone(trace.node_group) \cap (StackMembers \cup {a, b}) = {}

\* C4: the two members of every PackNode ever created are in the same
\* basic block and have the same opcode and operator parameters, unless
\* both are ExtractF128 with consecutive lanes; they are never both
\* constants.
C4_PackMembersAlike ==
  \A p \in 1..Len(packs) :
     LET a == graph.nodes[packs[p].nodes[1]]
         b == graph.nodes[packs[p].nodes[2]]
     IN /\ a.block = b.block
        /\ \/ /\ a.opcode = b.opcode
              /\ a.param = b.param
              /\ a.rep = b.rep
              /\ a.xform = b.xform
           \/ /\ a.opcode = "ExtractF128"
              /\ b.opcode = "ExtractF128"
              /\ b.param = a.param + 1
        /\ ~(a.opcode \in ConstantOpcodes /\ b.opcode \in ConstantOpcodes)

\* packs exist and a group of two nodes in different blocks was rejected
C4_Witness ==
  /\ trace.why = "Can not be packed"
  /\ graph.nodes[trace.node_group[1]].block # graph.nodes[trace.node_group[2]].block
  /\ graph.nodes[trace.node_group[1]].op = graph.nodes[trace.node_group[2]].op
  /\ CurrentPacks # {}

\* the group is registered, lane by lane, to one pack that matches it
RegisteredSame(node_group) ==
  \E p \in 1..Len(packs) :
     /\ packs[p].nodes = node_group
     /\ \A i \in 1..2 : /\ node_group[i] \in DOMAIN node_to_packnode_
                        /\ node_to_packnode_[node_group[i]] = p

\* a node of the group is registered to a pack that does not match it
RegisteredOther(node_group) ==
  \E i \in 1..2 : /\ node_group[i] \in DOMAIN node_to_packnode_
                  /\ packs[node_to_packnode_[node_group[i]]].nodes # node_group

\* what a diamond merge does: the registered pack is returned, no pack is
\* created, the registry is unchanged and the pushed frame is popped
MergeStep ==
  /\ pc' = "ret"
  /\ ret' = node_to_packnode_[arg.node_group[1]]
  /\ packs' = packs
  /\ node_to_packnode_' = node_to_packnode_
  /\ stack_' = stack_

\* C5 as claimed: every BuildTreeRec call on a packable group registered to
\* a matching pack is a diamond merge, and every call on a packable group
\* with a node registered to another pack returns no pack.
C5_DiamondMergeAlways ==
  [][(pc = "call" /\ CanBePacked(arg.node_group)) =>
        /\ RegisteredSame(arg.node_group) => MergeStep
        /\ RegisteredOther(arg.node_group) => (pc' = "ret" /\ ret' = NoPack)]_vars

\* the call gets past the depth cap and the cycle check
PastDepthAndCycle ==
  /\ arg.recursion_depth # RecursionMaxDepth
  /\ \/ arg.node_group[1] \notin on_stack_ /\ arg.node_group[2] \notin on_stack_
     \/ graph.nodes[stack_[Len(stack_)][1]].opcode \in PhiOpcodes

\* C5 amended: a BuildTreeRec call that gets past the depth cap and the
\* cycle check on a packable group registered to a matching pack is a
\* diamond merge; every call on a packable group with a node registered to
\* another pack returns no pack.
C5_DiamondMerge ==
  [][(pc = "call" /\ CanBePacked(arg.node_group)) =>
        /\ (RegisteredSame(arg.node_group) /\ PastDepthAndCycle) => MergeStep
        /\ RegisteredOther(arg.node_group) => (pc' = "ret" /\ ret' = NoPack)]_vars

\* a diamond merge has just returned the registered pack
C5_Witness ==
  /\ trace.why = "Perfect diamond merge"
  /\ pc = "ret"
  /\ ret = trace.pnode
  /\ packs[ret].nodes = trace.node_group

\* C6: BuildTree on the same roots gives the same outcome and the same
\* tree shape whatever BuildTree calls came before it.
C6_HistoryIndependent ==
  \A i, j \in 1..Len(attempts) :
     (/\ attempts[i].build
      /\ attempts[j].build
      /\ attempts[i].unit.stores = attempts[j].unit.stores)
       => attempts[i].shape = attempts[j].shape

\* a tree was built twice on the same roots, with a failed BuildTree on
\* other roots in between
C6_Witness ==
  \E i, k, j \in 1..Len(attempts) :
     /\ i < k /\ k < j
     /\ attempts[i].build /\ attempts[j].build /\ attempts[k].build
     /\ attempts[i].unit.stores = attempts[j].unit.stores
     /\ attempts[i].shape.built
     /\ Cardinality(attempts[i].shape.wiring) >= 1
     /\ ~attempts[k].shape.built

\* C7: CollectSeeds is idempotent: once it has run, running it again (the
\* next TryRevectorize) leaves group_of_stores_ exactly as it was.
C7_CollectSeedsIdempotent ==
  [][calls >= 1 => group_of_stores_' = group_of_stores_]_vars

\* CollectSeeds has run twice over stores that fill a chain of three
C7_Witness ==
  /\ calls = 2
  /\ TryRevectorizeGate
  /\ \E d \in DOMAIN group_of_stores_ : \E a \in DOMAIN group_of_stores_[d] :
        Len(group_of_stores_[d][a]) >= 3

\* the stores of all StoreNodeSets
Seeds ==
  UNION {UNION {{group_of_stores_[d][a][i] : i \in 1..Len(group_of_stores_[d][a])} :
                  a \in DOMAIN group_of_stores_[d]} :
           d \in DOMAIN group_of_stores_}

\* C8: every store in a StoreNodeSet has an offset that is a multiple of
\* 16; a store with another offset, the sentinel -1 included, is no seed.
C8_SeedsAligned ==
  /\ \A node \in Seeds : GetMemoryOffsetValue(node) % 16 = 0
  /\ \A i \in 1..Len(GetSimdStoreNodes) :
        GetMemoryOffsetValue(GetSimdStoreNodes[i]) % 16 # 0
          => GetSimdStoreNodes[i] \notin Seeds

\* stores at offsets 0 and 12: only the store at 0 is a seed, no pack
C8_Witness ==
  /\ pc = "idle"
  /\ calls >= 1
  /\ Len(GetSimdStoreNodes) = 2
  /\ GetMemoryOffsetValue(GetSimdStoreNodes[1]) = 0
  /\ GetMemoryOffsetValue(GetSimdStoreNodes[2]) = 12
  /\ Seeds = {GetSimdStoreNodes[1]}
  /\ attempts = <<>>
  /\ ~last_result

\* the group would be packed without recursion at depth 0
PackableLeaf(node_group) ==
  LET r == BuildTreeRec(SLPTreeState, node_group, 0)
  IN ~r.recurs /\ r.pnode # NoPack

\* C9 as claimed: BuildTreeRec called with recursion_depth =
\* RecursionMaxDepth on an otherwise packable group returns a pack.
C9_MaxDepthSucceeds ==
  [][(/\ pc = "call"
      /\ arg.recursion_depth = RecursionMaxDepth
      /\ PackableLeaf(arg.node_group)) => (pc' = "ret" /\ ret' # NoPack)]_vars

\* C9 amended: BuildTreeRec called with recursion_depth =
\* RecursionMaxDepth returns no pack and changes nothing; called with
\* RecursionMaxDepth - 1 on a group that needs no recursion it returns the
\* pack; no call is made with a larger depth.
C9_DepthBoundary ==
  [][pc = "call" =>
       /\ arg.recursion_depth <= RecursionMaxDepth
       /\ arg.recursion_depth = RecursionMaxDepth =>
            /\ pc' = "ret" /\ ret' = NoPack
            /\ UNCHANGED <<stack_, on_stack_, node_to_packnode_, packs>>
       /\ (arg.recursion_depth = RecursionMaxDepth - 1
             /\ PackableLeaf(arg.node_group)) => (pc' = "ret" /\ ret' # NoPack)]_vars

\* a call at depth RecursionMaxDepth on a packable group hit the cap
C9_Witness ==
  /\ trace.why = "Failed due to max recursion depth"
  /\ trace.recursion_depth = RecursionMaxDepth
  /\ pc = "ret" /\ ret = NoPack
  /\ PackableLeaf(trace.node_group)

\* the deepest call that builds a pack
C9_DeepestPack ==
  /\ CallTraced
  /\ trace.recursion_depth = RecursionMaxDepth - 1
  /\ trace.pnode # NoPack

\* the unit is a pair at positions (2i, 2i+1) of a StoreNodeSet of even size
UnitOfEvenChain(u) ==
  /\ u.dominator \in DOMAIN group_of_stores_
  /\ u.address \in DOMAIN group_of_stores_[u.dominator]
  /\ LET chain == group_of_stores_[u.dominator][u.address] IN
     /\ u.size = Len(chain)
     /\ \E h \in 1..MaxStores : Len(chain) = 2 * h
     /\ \E i \in 0..MaxStores : u.pos = 2 * i /\ u.pos + 2 <= Len(chain)
     /\ u.stores = <<chain[u.pos + 1], chain[u.pos + 2]>>

\* C10: ReduceStoreChain is called only on the two-element groups at the
\* positions (2i, 2i+1) of a StoreNodeSet of even size >= 2, once per
\* TryRevectorize; a set of size 3 is never attempted and a set of size 4
\* gets at most two BuildTree calls, each on a two-element root group.
C10_PairsOfEvenChains ==
  /\ \A i \in 1..Len(attempts) : UnitOfEvenChain(attempts[i].unit)
  /\ \A i \in 1..Len(units) : UnitOfEvenChain(units[i])
  /\ \A i \in 1..Len(attempts) :
        Cardinality({j \in 1..Len(attempts) :
                       attempts[j].unit = attempts[i].unit}) <= calls
  /\ pc \in {"call", "ret"} =>
        /\ units # <<>>
        /\ Len(stack_) >= 1 => stack_[1] = Head(units).stores

\* a set of four stores gave two BuildTree calls on its two pairs
C10_Witness ==
  /\ calls = 1
  /\ pc = "idle"
  /\ Len(attempts) = 2
  /\ attempts[1].build /\ attempts[2].build
  /\ attempts[1].unit.size = 4 /\ attempts[2].unit.size = 4
  /\ attempts[1].unit.pos = 0 /\ attempts[2].unit.pos = 2
  /\ attempts[1].unit.address = attempts[2].unit.address

\* a set of three stores was left alone
C10_OddWitness ==
  /\ calls = 1
  /\ pc = "idle"
  /\ TryRevectorizeGate
  /\ attempts = <<>>
  /\ \E d \in DOMAIN group_of_stores_ : \E a \in DOMAIN group_of_stores_[d] :
        Len(group_of_stores_[d][a]) = 3

\* C11: ReduceStoreChain calls BuildTree exactly for a store pair whose
\* second offset is the first offset plus 16; for any other pair it returns
\* false without BuildTree: no pack is made and stack, on-stack set,
\* registry and root are as before.
C11_ContiguousPairsOnly ==
  [][(pc = "reduce" /\ units # <<>>) =>
       LET Stores == Head(units).stores IN
       IF GetMemoryOffsetValue(Stores[2]) = GetMemoryOffsetValue(Stores[1]) + 16
       THEN /\ pc' = "call"
            /\ arg' = [node_group |-> Stores, recursion_depth |-> 0]
            /\ stack_' = <<>> /\ node_to_packnode_' = <<>>
       ELSE /\ pc' = "reduce"
            /\ units' = Tail(units)
            /\ attempts' # attempts
            /\ ~attempts'[Len(attempts')].build
            /\ UNCHANGED <<stack_, on_stack_, node_to_packnode_, packs, root_,
                           success>>]_vars

\* the pair at offsets 0 and 32 was refused after a tree had been built
C11_Witness ==
  /\ pc = "reduce"
  /\ attempts # <<>>
  /\ LET a == attempts[Len(attempts)] IN
     /\ ~a.build
     /\ GetMemoryOffsetValue(a.unit.stores[1]) = 0
     /\ GetMemoryOffsetValue(a.unit.stores[2]) = 32
  /\ root_ # NoPack
  /\ node_to_packnode_ # <<>>
  /\ success

\* C12: BuildTreeRec (below the depth cap) rejects a group as an illegal
\* cycle exactly when every node of the group is a member of a group on
\* the recursion stack and the top of the stack is not a phi group.
C12_CyclePolicy ==
  [][(pc = "call" /\ ~DepthCapReached(arg.recursion_depth)) =>
       ((trace'.why = "Failed due to on stack")
          <=> (/\ arg.node_group[1] \in StackMembers
               /\ arg.node_group[2] \in StackMembers
               /\ ~StackTopIsPhi(SLPTreeState)))]_vars

\* the group is two unregistered ExtractF128 nodes of one basic block
\* that read the same source
ExtractPair(node_group) ==
  /\ Opcode(node_group[1]) = "ExtractF128"
  /\ Opcode(node_group[2]) = "ExtractF128"
  /\ SameBasicBlock(node_group[1], node_group[2])
  /\ node_group[1] \notin DOMAIN node_to_packnode_
  /\ node_group[2] \notin DOMAIN node_to_packnode_
  /\ InputAt(node_group[1], 0) = InputAt(node_group[2], 0)

\* the call returns a new leaf pack over its group and leaves the stack as
\* it was (its frame pushed and popped)
LeafStep ==
  /\ pc' = "ret"
  /\ ret' = Len(packs) + 1
  /\ Len(packs') = Len(packs) + 1
  /\ packs'[ret'].nodes = arg.node_group
  /\ packs'[ret'].operands = <<>>
  /\ stack_' = stack_

\* C13: a BuildTreeRec call (past the depth cap and the cycle check) on two
\* unregistered ExtractF128 nodes of one block that read the same source,
\* not a LoadTransform, with lane parameters n and n + 1, creates a leaf
\* pack, pops its frame and returns the pack.
C13_ExtractConsecutiveLeaf ==
  [][(/\ pc = "call"
      /\ PastDepthAndCycle
      /\ ExtractPair(arg.node_group)
      /\ Opcode(InputAt(arg.node_group[1], 0)) # "LoadTransform"
      /\ OpParameter(arg.node_group[2]) = OpParameter(arg.node_group[1]) + 1)
       => LeafStep]_vars

\* the group reads a LoadTransform(S128Load32Splat) with lane parameters 0
SplatExtractPair(node_group) ==
  /\ ExtractPair(node_group)
  /\ Opcode(InputAt(node_group[1], 0)) = "LoadTransform"
  /\ graph.nodes[InputAt(node_group[1], 0)].xform = "kS128Load32Splat"
  /\ OpParameter(node_group[1]) = 0
  /\ OpParameter(node_group[2]) = 0

\* C14 as claimed: a BuildTreeRec call on two ExtractF128 nodes with lane
\* parameter 0 that read a common LoadTransform(S128Load32Splat) returns a
\* new leaf pack.
C14_SplatExtractPacked ==
  [][(pc = "call" /\ PastDepthAndCycle /\ SplatExtractPair(arg.node_group))
       => LeafStep]_vars

\* C14 amended: such a call returns a new leaf pack when the two members
\* of the group are one and the same ExtractF128 node, and no pack when
\* they are two nodes.
C14_SplatExtractSameNode ==
  [][(pc = "call" /\ PastDepthAndCycle /\ SplatExtractPair(arg.node_group))
       => IF arg.node_group[1] = arg.node_group[2]
          THEN LeafStep
          ELSE pc' = "ret" /\ ret' = NoPack /\ packs' = packs]_vars

\* the leaf pack of one ExtractF128 node of a LoadTransform, in both lanes
C14_Witness ==
  /\ trace.why = "Added a pair of Extract"
  /\ pc = "ret"
  /\ ret = trace.pnode
  /\ trace.node_group[1] = trace.node_group[2]
  /\ Opcode(InputAt(trace.node_group[1], 0)) = "LoadTransform"
  /\ OpParameter(trace.node_group[1]) = 0
  /\ packs[ret].nodes = trace.node_group

\* the pairs ReduceStoreChains is to hand on: (dominator, address, 2i) for
\* every StoreNodeSet of even size >= 2
EligiblePairs ==
  UNION {UNION {{<<d, a, 2 * i>> :
                   i \in {k \in 0..Len(group_of_stores_[d][a]) :
                            /\ Len(group_of_stores_[d][a]) % 2 = 0
                            /\ 2 * k + 2 <= Len(group_of_stores_[d][a])}} :
                  a \in DOMAIN group_of_stores_[d]} :
           d \in DOMAIN group_of_stores_}

\* the ReduceStoreChain calls of the TryRevectorize call that is returning
LastAttempts ==
  SubSeq(attempts, Len(attempts) - Cardinality(EligiblePairs) + 1, Len(attempts))

\* C15: with the flag off or no SIMD store TryRevectorize returns false and
\* collects no seeds and builds no tree; otherwise it has called
\* ReduceStoreChain on every eligible pair of every chain when it returns,
\* whatever the earlier calls returned, and it returns true exactly when
\* one of these calls built a root pack.
C15_AttemptsEveryPair ==
  [][/\ (pc = "idle" /\ ~(support_simd256_ /\ graph.stores # <<>>)) =>
          /\ pc' = "idle"
          /\ last_result' = FALSE
          /\ UNCHANGED <<group_of_stores_, packs, attempts, stack_, on_stack_,
                         node_to_packnode_, root_>>
     /\ (pc = "idle" /\ support_simd256_ /\ graph.stores # <<>>) => pc' = "reduce"
     /\ (pc = "reduce" /\ pc' = "idle") =>
          /\ Len(attempts) >= Cardinality(EligiblePairs)
          /\ {<<LastAttempts[k].unit.dominator, LastAttempts[k].unit.address,
                LastAttempts[k].unit.pos>> : k \in 1..Len(LastAttempts)}
               = EligiblePairs
          /\ last_result' = (\E k \in 1..Len(LastAttempts) :
                                LastAttempts[k].build /\ LastAttempts[k].shape.built)]_vars

\* TryRevectorize returned true after a pair that gave no pack and a later
\* pair that gave a root pack
C15_Witness ==
  /\ pc = "idle"
  /\ calls = 1
  /\ last_result
  /\ \E i, j \in 1..Len(attempts) :
        /\ i < j
        /\ ~attempts[i].shape.built
        /\ attempts[j].build /\ attempts[j].shape.built

\* C16: at every point of a BuildTree call a node is in the on-stack set
\* exactly when it is a member of a group on the recursion stack.
C16_OnStackLockStep ==
  pc \in {"call", "ret"} => on_stack_ = StackMembers

\* C17: once a BuildTreeRec call of a BuildTree has returned no pack, the
\* enclosing call returns no pack next: no operand is recursed into, no
\* PackNode is created or changed, and at the root BuildTree returns no
\* pack.
C17_FailurePropagates ==
  [][(pc = "ret" /\ ret = NoPack) =>
       /\ ret' = NoPack
       /\ packs' = packs
       /\ node_to_packnode_' = node_to_packnode_
       /\ IF frames # <<>>
          THEN pc' = "ret" /\ frames' = SubSeq(frames, 1, Len(frames) - 1)
          ELSE /\ pc' = "reduce"
               /\ root_' = NoPack
               /\ success' = success
               /\ ~attempts'[Len(attempts')].shape.built]_vars

\* a failure below has reached the root call, past a pack of an F32x4Add
\* pair whose first operand failed and whose second was never visited
C17_Witness ==
  /\ pc = "ret"
  /\ ret = NoPack
  /\ frames = <<>>
  /\ trace.why = "Operand failed"
  /\ trace.recursion_depth = 0
  /\ Cardinality(CurrentPacks) >= 3
  /\ \E p \in CurrentPacks :
        /\ Opcode(packs[p].nodes[1]) = "F32x4Add"
        /\ packs[p].operands = <<>>

\* a call has returned no pack into an operand loop that has operands left,
\* and the descent that failed had created the pack of that operand
AbortedDescent ==
  /\ pc = "ret"
  /\ ret = NoPack
  /\ frames # <<>>
  /\ LET f == frames[Len(frames)] IN
     /\ f.i + 1 < f.start_index + f.count
     /\ \E p \in CurrentPacks : packs[p].nodes = Operands(f.node_group, f.i)

\* C18 as claimed: after a descent that created packs has failed, a sibling
\* operand that is left is recursed into (and can meet the stale packs).
C18_SiblingAfterFailure ==
  [][AbortedDescent => pc' = "call"]_vars

\* C18 amended: after a failure the packs created so far stay registered
\* (no rollback) until the next BuildTree, which starts from an empty
\* registry; no BuildTreeRec call follows the failure in the same
\* BuildTree, so every diamond merge is against a pack created by the same
\* BuildTree before any failure.
C18_ResidueNeverMerged ==
  [][/\ (pc = "ret" /\ ret = NoPack) =>
          /\ pc' # "call"
          /\ \A p \in CurrentPacks : \A i \in 1..2 :
                /\ packs[p].nodes[i] \in DOMAIN node_to_packnode_'
                /\ node_to_packnode_'[packs[p].nodes[i]] = p
     /\ (pc = "reduce" /\ pc' = "call") =>
          node_to_packnode_' = <<>> /\ built_from' = Len(packs)
     /\ (pc = "call" /\ trace'.why = "Perfect diamond merge") =>
          /\ ret' \in CurrentPacks
          /\ \A k \in 1..Len(frames) : frames[k].pnode \in CurrentPacks
          /\ Len(stack_) = Len(frames)]_vars

\* a descent has failed and left its packs in the registry, with a sibling
\* operand not yet visited
C18_Witness ==
  /\ AbortedDescent
  /\ Cardinality(CurrentPacks) >= 3
  /\ \A p \in CurrentPacks : node_to_packnode_[packs[p].nodes[1]] = p

\* C19: IsSideEffectFreeLoad, as BuildTreeRec calls it on a pushed load
\* group, ends on every graph, cyclic ones included, expands no node twice,
\* and returns false exactly when a node of the loads' input cone is in the
\* on-stack set.
C19_DependencyProbe ==
  [][(/\ pc = "call"
      /\ arg.node_group # <<>>
      /\ Opcode(arg.node_group[1]) \in {"ProtectedLoad", "LoadTransform"}) =>
       LET g == arg.node_group
           st == PushStack(SLPTreeState, g)
           r == VisitLoop(st, g, InitialToVisit(g), {}, <<>>)
           hit == InputCone(g) \cap st.on_stack_ # {}
       IN /\ r.free <=> ~hit
          /\ \A i, j \in 1..Len(r.expanded) :
                r.expanded[i] = r.expanded[j] => i = j
          /\ trace'.why = "Load leaf node" => ~hit
          /\ trace'.why = "Failed due to dependency check" => hit]_vars

\* a load leaf was made of loads whose input cone has a cycle inside their
\* block, while other groups are on the stack
C19_Witness ==
  /\ trace.why = "Load leaf node"
  /\ pc = "ret"
  /\ stack_ # <<>>
  /\ \E n \in InputCone(trace.node_group) :
        /\ SameBasicBlock(n, trace.node_group[1])
        /\ n \in Cone(trace.node_group, InputsOf(n), {})

\* the probe found a dependency on a node of the stack
C19_Dependent ==
  /\ trace.why = "Failed due to dependency check"
  /\ pc = "ret"
  /\ InputCone(trace.node_group) \cap on_stack_ # {}

\* the operands a NewPackNodeAndRecurs loop in progress has yet to finish
RECURSIVE PendingOperands(_)
PendingOperands(fs) ==
  IF fs = <<>> THEN 0
  ELSE LET f == Head(fs)
       IN (f.start_index + f.count - f.i) + PendingOperands(Tail(fs))

\* the nodes no PackNode is registered for
UnregisteredNodes == NodeIds \ DOMAIN node_to_packnode_

\* more than twice the operands one NewPackNodeAndRecurs recurses into
VariantWeight ==
  2 * (CHOOSE m \in 0..Len(graph.nodes) + 8 :
         /\ \A node \in NodeIds : ValueInputCount(node) <= m
         /\ \E node \in NodeIds : ValueInputCount(node) = m) + 2

\* A measure of the work a BuildTree has left: each recursion into a new
\* group registers nodes, each return finishes an operand.
BuildTreeVariant ==
  VariantWeight * Cardinality(UnregisteredNodes)
    + 2 * PendingOperands(frames)
    + (IF pc = "call" THEN 1 ELSE 0)

\* C20: BuildTree terminates, on graphs with cycles through phis or through
\* other nodes as well: every step of BuildTreeRec and NewPackNodeAndRecurs
\* lowers a measure that is a natural number, so no chain of recursive calls
\* goes on for ever, and the recursion stack never holds more than
\* RecursionMaxDepth groups.
C20_BuildTreeTerminates ==
  [][/\ Len(stack_') <= RecursionMaxDepth
     /\ Len(frames') <= RecursionMaxDepth
     /\ (pc \in {"call", "ret"} /\ pc' \in {"call", "ret"})
          => /\ BuildTreeVariant' < BuildTreeVariant
             /\ BuildTreeVariant' >= 0]_vars

\* a BuildTreeRec(roots, 0) on a graph with a cycle through non-phi nodes
\* has returned, after the cycle was entered
C20_Witness ==
  /\ graph = PhiCycle
  /\ pc = "ret"
  /\ frames = <<>>
  /\ Len(packs) - built_from >= 3

\* the PackNodes the registry holds
RegisteredPacks == {node_to_packnode_[node] : node \in DOMAIN node_to_packnode_}

\* BuildTreeRec(roots, 0) has returned a pack to BuildTree
RootReturned == pc = "ret" /\ frames = <<>> /\ ret # NoPack

\* the operand positions (from 0) a pack of this opcode must hold a child at,
\* for the opcodes the claim names
ChildPositions(p) ==
  LET node0 == packs[p].nodes[1]
  IN IF Opcode(node0) \in {"Phi", "LoopExitValue", "F32x4Add", "F32x4Mul"}
     THEN 0..(ValueInputCount(node0) - 1)
     ELSE IF Opcode(node0) \in {"Store", "ProtectedStore"} THEN {2}
     ELSE {}

ClaimedOpcodes ==
  {"Phi", "LoopExitValue", "F32x4Add", "F32x4Mul", "Store", "ProtectedStore",
   "ExtractF128", "ProtectedLoad", "LoadTransform"}

\* C21: when BuildTree returns a root pack, every PackNode of the registry is
\* reachable from the root through operand links, every Phi, LoopExitValue,
\* F32x4Add and F32x4Mul pack holds a child at every value-input position,
\* every Store/ProtectedStore pack holds a child at position 2 and nowhere
\* else, and every ExtractF128, ProtectedLoad and LoadTransform pack holds
\* none.
C21_NoResidueNoHalfBuilt ==
  RootReturned =>
    /\ RegisteredPacks \subseteq ReachablePacks(packs, {ret}, {})
    /\ \A p \in RegisteredPacks :
         Opcode(packs[p].nodes[1]) \in ClaimedOpcodes
           => {k - 1 : k \in SetOperands(packs, p)} = ChildPositions(p)

\* a root is returned over a tree with a store pack, a pack with two
\* children and a leaf pack
C21_Witness ==
  /\ RootReturned
  /\ Opcode(packs[ret].nodes[1]) \in {"Store", "ProtectedStore"}
  /\ \E p \in RegisteredPacks : Cardinality(ChildPositions(p)) >= 2
  /\ \E p \in RegisteredPacks :
       Opcode(packs[p].nodes[1]) \in {"ExtractF128", "ProtectedLoad", "LoadTransform"}
====
